---- MODULE Spec2Model ----
(***************************************************************************)
(* A model of swapd (cmd/swapd/main.go): the daemon lifecycle              *)
(* (runDaemon, daemon.make, daemon.stop, newBackend,                       *)
(* getProtocolInstances).  runDaemon runs daemon.make in a goroutine and   *)
(* then waits and stops; both threads are modelled, one action per call    *)
(* they make, and every interleaving of them is explored.                  *)
(*                                                                         *)
(* The swap itself (the SwapFactory contract and the two protocol state    *)
(* machines, packages protocol/xmrtaker and protocol/xmrmaker) is not part *)
(* of these sources; it is modelled from the specification, sections 4.4   *)
(* and 6, under SwapSpec (SwapFairSpec for what must eventually happen).   *)
(*                                                                         *)
(* The XMRTaker instance (NewInstance, getAddress, Instance.Refund, the    *)
(* part of package xmrtaker these sources hold) is followed under          *)
(* InstanceSpec, with the swap manager of the specification (4.3).         *)
(***************************************************************************)
EXTENDS Integers, Sequences, FiniteSets, TLC

VARIABLES
    flags,      \* the command line of this run (c *cli.Context) and the env's config
    dpc,        \* position of runDaemon (the main goroutine)
    mpc,        \* position of the goroutine that runs d.make
    makeErr,    \* d.make is returning / has returned a non-nil error
    ctxDone,    \* the root context (daemon.ctx) has been cancelled
    sig,        \* a shutdown signal has been delivered to the process
    d,          \* the daemon's fields host, database, rpcServer: "nil" or "set"
    comp,       \* state of every external component the daemon creates
    handler,    \* the inbound swap handler registered with the host
    chainID,    \* result of ec.ChainID relative to the configured environment
    factoryArg, \* the address getOrDeploySwapFactory was called with
    deferred,   \* make's `defer backend.Close()` has been registered
    calls,      \* the calls d.make has made so far, in order
    log         \* the calls that start, stop or close a component, in order

daemonVars == <<flags, dpc, mpc, makeErr, ctxDone, sig, d, comp, handler,
                chainID, factoryArg, deferred, calls, log>>

VARIABLES
    now,        \* chain time, counted from the block that holds new_swap
    cstate,     \* the contract's swap: none, pending, ready, claimed, refunded
    mempool,    \* transactions submitted and not yet in a block
    ts,         \* XMRTaker's state
    ms,         \* XMRMaker's state
    eth,        \* who holds the ETH of the swap: taker, contract, maker
    xmr,        \* who holds the XMR of the swap: maker, joint, taker
    net,        \* protocol messages sent and not yet delivered
    sent,       \* transactions and transfers ever submitted
    claimedAt,  \* chain time at which claim was accepted, Never before
    refundedAt, \* chain time at which refund was accepted, Never before
    readyAt,    \* chain time at which set_ready was accepted, Never before
    reverted,   \* the transactions the contract reverted, with the chain time
    readySentAt \* chain time at which the taker called set_ready, Never before

swapVars == <<now, cstate, mempool, ts, ms, eth, xmr, net, sent, claimedAt,
              refundedAt, readyAt, reverted, readySentAt>>

VARIABLES
    cfg,        \* the xmrtaker.Config given to NewInstance
    ipc,        \* position of NewInstance and of the getAddress it calls
    wallet,     \* the wallet open in the Monero wallet client, "" when none
    address,    \* getAddress's variable address
    inst,       \* the Instance NewInstance returned, in a sequence empty before
    swapMu,     \* Instance.swapMu: "free" or the caller that holds it
    swapState,  \* Instance.swapState: NoSwap or the ongoing swap
    registry,   \* the swap manager's non-terminal swaps, as [peer, id]
    finished,   \* the swaps that reached a terminal state
    requests,   \* number of new_swap requests made to the manager
    lastStart,  \* the last new_swap request and its result
    singleSwap, \* the manager's single-swap mode
    rpc,        \* position of every RPC caller in Instance.Refund
    ret,        \* what Instance.Refund last returned to every caller
    submitted,  \* the refund transactions doRefund submitted
    observed    \* the last read of swapState by GetOngoingSwapState

instVars == <<cfg, ipc, wallet, address, inst, swapMu, swapState, registry,
              finished, requests, lastStart, singleSwap, rpc, ret, submitted,
              observed>>

vars == <<daemonVars, swapVars, instVars>>

(***************************************************************************)
(* Inputs                                                                  *)
(***************************************************************************)
Unset == "<unset>"

\* values the --contract-address flag is given in the runs explored
ContractAddressFlagValues == {Unset, "", "zz", "0x00", "0x0a"}

ZeroAddress == 0

\* cfg.ContractAddress as cliutil.GetEnvironment returns it: zero (dev) or a default
ConfigAddresses == {ZeroAddress, 77}

NoCall == -1

Components == {"ec", "host", "database", "sm", "contract", "wallet", "backend",
               "xmrtaker", "xmrmaker", "rpcServer"}

\* c.IsSet(flag)
IsSet(v) == v # Unset

\* c.String(flag): the flag's value, or its default "" when it was not given
String(v) == IF v = Unset THEN "" ELSE v

\* ethcommon.IsHexAddress
IsHexAddress(s) == s \in {"0x00", "0x0a"}

\* ethcommon.HexToAddress
HexToAddress(s) ==
    CASE s = "0x00" -> ZeroAddress
      [] s = "0x0a" -> 10
      [] OTHER -> ZeroAddress

(***************************************************************************)
(* newBackend's choice of the contract address (main.go 513-531)           *)
(***************************************************************************)
\* faulty variant: --deploy does not zero the config's default address (line 519 lost)
ContractAddressChoice_KeepsDefault(f) ==
    IF f.deploy
    THEN [err |-> IsSet(f.contractAddress), addr |-> f.cfgContractAddress]
    ELSE LET contractAddrStr == String(f.contractAddress)
             addr == IF contractAddrStr # ""
                     THEN HexToAddress(contractAddrStr)
                     ELSE f.cfgContractAddress
         IN  IF contractAddrStr # "" /\ ~IsHexAddress(contractAddrStr)
             THEN [err |-> TRUE, addr |-> f.cfgContractAddress]
             ELSE [err |-> (addr = ZeroAddress), addr |-> addr]

\* [err, addr]: whether newBackend returns an error here, and otherwise the
\* cfg.ContractAddress it goes on to pass to getOrDeploySwapFactory
ContractAddressChoice(f) ==
    IF f.deploy
    THEN IF IsSet(f.contractAddress)
         THEN [err |-> TRUE, addr |-> f.cfgContractAddress]
         ELSE [err |-> FALSE, addr |-> ZeroAddress]
    ELSE LET contractAddrStr == String(f.contractAddress)
             addr == IF contractAddrStr # ""
                     THEN HexToAddress(contractAddrStr)
                     ELSE f.cfgContractAddress
         IN  IF contractAddrStr # "" /\ ~IsHexAddress(contractAddrStr)
             THEN [err |-> TRUE, addr |-> f.cfgContractAddress]
             ELSE [err |-> (addr = ZeroAddress), addr |-> addr]

\* faulty variant: the test negates one of the flags
DevFlagsRejected_Negated(f) == f.devXMRMaker /\ ~f.devXMRTaker

\* daemon.make's test of the two development flags (main.go 324-328)
DevFlagsRejected(f) == f.devXMRMaker /\ f.devXMRTaker

\* faulty variant: make registers a, the XMRTaker instance
SetHandlerArg_Taker(a, b) == a

\* getProtocolInstances returns (xmrtaker, xmrmaker); make names them a, b and
\* registers b with the host (main.go 417-424)
SetHandlerArg(a, b) == b

(***************************************************************************)
(* daemon.make, statement by statement.  mpc names the call made next.     *)
(***************************************************************************)
\* faulty variant: the database is opened first, before the Ethereum client is dialled
NextStep_DatabaseFirst(s) ==
    CASE s = "GetEnvironment"  -> "CheckDevFlags"
      [] s = "CheckDevFlags"   -> "MakeDir"
      [] s = "MakeDir"         -> "NewDatabase"
      [] s = "NewDatabase"     -> "Dial"
      [] s = "Dial"            -> "ChainID"
      [] s = "ChainID"         -> "NewHost"
      [] s = "NewHost"         -> "NewManager"
      [] s = "NewManager"      -> "EthKey"
      [] s = "EthKey"          -> "ContractFlags"
      [] s = "ContractFlags"   -> "GetOrDeploy"
      [] s = "GetOrDeploy"     -> "NewWalletClient"
      [] s = "NewWalletClient" -> "NewBackend"
      [] s = "NewBackend"      -> "NewXMRTaker"
      [] s = "NewXMRTaker"     -> "NewXMRMaker"
      [] s = "NewXMRMaker"     -> "SetHandler"
      [] s = "SetHandler"      -> "HostStart"
      [] s = "HostStart"       -> "NewServer"
      [] s = "NewServer"       -> "RPCStart"
      [] s = "RPCStart"        -> "Serving"
      [] OTHER                 -> "return"

\* the order of make's statements (main.go 319-463, newBackend and
\* getProtocolInstances in the places make calls them)
NextStep(s) ==
    CASE s = "GetEnvironment"  -> "CheckDevFlags"
      [] s = "CheckDevFlags"   -> "MakeDir"
      [] s = "MakeDir"         -> "Dial"
      [] s = "Dial"            -> "ChainID"
      [] s = "ChainID"         -> "NewHost"
      [] s = "NewHost"         -> "NewDatabase"
      [] s = "NewDatabase"     -> "NewManager"
      [] s = "NewManager"      -> "EthKey"
      [] s = "EthKey"          -> "ContractFlags"
      [] s = "ContractFlags"   -> "GetOrDeploy"
      [] s = "GetOrDeploy"     -> "NewWalletClient"
      [] s = "NewWalletClient" -> "NewBackend"
      [] s = "NewBackend"      -> "NewXMRTaker"
      [] s = "NewXMRTaker"     -> "NewXMRMaker"
      [] s = "NewXMRMaker"     -> "SetHandler"
      [] s = "SetHandler"      -> "HostStart"
      [] s = "HostStart"       -> "NewServer"
      [] s = "NewServer"       -> "RPCStart"
      [] s = "RPCStart"        -> "Serving"
      [] OTHER                 -> "return"

\* the process is running: runDaemon has neither returned (main then exits)
\* nor panicked
Alive == dpc \notin {"exited", "panicked"}

\* d.make returns err (true: non-nil); its deferred calls run next
Returns(err) == mpc' = "return" /\ makeErr' = err

\* d.make goes on to its next statement
Continues == mpc' = NextStep(mpc) /\ UNCHANGED makeErr

\* make's calls in order; "error" follows a call that returned an error
Call(ev) == calls' = Append(calls, ev)

CallFails(ev) == calls' = calls \o <<ev, "error">>

\* the calls of both goroutines that start, stop or close a component
Log(ev) == log' = Append(log, ev)

LogFails(ev) == log' = log \o <<ev, "error">>

Make_GetEnvironment ==
    /\ Alive /\ mpc = "GetEnvironment"
    /\ \E ok \in BOOLEAN :
         IF ok THEN Continues /\ Call("cliutil.GetEnvironment")
               ELSE Returns(TRUE) /\ CallFails("cliutil.GetEnvironment")
    /\ UNCHANGED <<swapVars, instVars, flags, dpc, ctxDone, sig, d, comp, handler, chainID,
                   factoryArg, deferred, log>>

Make_CheckDevFlags ==
    /\ Alive /\ mpc = "CheckDevFlags"
    /\ IF DevFlagsRejected(flags)
       THEN Returns(TRUE) /\ CallFails("devFlags")
       ELSE Continues /\ Call("devFlags")
    /\ UNCHANGED <<swapVars, instVars, flags, dpc, ctxDone, sig, d, comp, handler, chainID,
                   factoryArg, deferred, log>>

\* the data directory, the boot nodes, the libp2p key file and port (330-369)
Make_MakeDir ==
    /\ Alive /\ mpc = "MakeDir"
    /\ \E ok \in BOOLEAN :
         IF ok THEN Continues /\ Call("common.MakeDir")
               ELSE Returns(TRUE) /\ CallFails("common.MakeDir")
    /\ UNCHANGED <<swapVars, instVars, flags, dpc, ctxDone, sig, d, comp, handler, chainID,
                   factoryArg, deferred, log>>

Make_Dial ==
    /\ Alive /\ mpc = "Dial"
    /\ \E ok \in BOOLEAN :
         IF ok THEN /\ Continues
                    /\ Call("ethclient.Dial")
                    /\ comp' = [comp EXCEPT !.ec = "dialled"]
               ELSE /\ Returns(TRUE)
                    /\ CallFails("ethclient.Dial")
                    /\ UNCHANGED comp
    /\ UNCHANGED <<swapVars, instVars, flags, dpc, ctxDone, sig, d, handler, chainID, factoryArg,
                   deferred, log>>

\* ec.ChainID: the chain id of the endpoint is that of the configured
\* environment or another one; make does not compare them
Make_ChainID ==
    /\ Alive /\ mpc = "ChainID"
    /\ \E r \in {"error", "match", "mismatch"} :
         IF r = "error"
         THEN Returns(TRUE) /\ CallFails("ec.ChainID") /\ UNCHANGED chainID
         ELSE Continues /\ Call("ec.ChainID") /\ chainID' = r
    /\ UNCHANGED <<swapVars, instVars, flags, dpc, ctxDone, sig, d, comp, handler, factoryArg,
                   deferred, log>>

Make_NewHost ==
    /\ Alive /\ mpc = "NewHost"
    /\ \E ok \in BOOLEAN :
         IF ok THEN /\ Continues
                    /\ Call("net.NewHost")
                    /\ comp' = [comp EXCEPT !.host = "created"]
                    /\ d' = [d EXCEPT !.host = "set"]
               ELSE /\ Returns(TRUE)
                    /\ CallFails("net.NewHost")
                    /\ UNCHANGED <<comp, d>>
    /\ UNCHANGED <<swapVars, instVars, flags, dpc, ctxDone, sig, handler, chainID, factoryArg,
                   deferred, log>>

Make_NewDatabase ==
    /\ Alive /\ mpc = "NewDatabase"
    /\ \E ok \in BOOLEAN :
         IF ok THEN /\ Continues
                    /\ Call("db.NewDatabase")
                    /\ comp' = [comp EXCEPT !.database = "open"]
                    /\ d' = [d EXCEPT !.database = "set"]
               ELSE /\ Returns(TRUE)
                    /\ CallFails("db.NewDatabase")
                    /\ UNCHANGED <<comp, d>>
    /\ UNCHANGED <<swapVars, instVars, flags, dpc, ctxDone, sig, handler, chainID, factoryArg,
                   deferred, log>>

Make_NewManager ==
    /\ Alive /\ mpc = "NewManager"
    /\ Call("swap.NewManager")
    /\ Continues
    /\ comp' = [comp EXCEPT !.sm = "empty"]
    /\ UNCHANGED <<swapVars, instVars, flags, dpc, ctxDone, sig, d, handler, chainID, factoryArg,
                   deferred, log>>

\* newBackend 488-505: the signer flags and the Ethereum private key
Backend_EthKey ==
    /\ Alive /\ mpc = "EthKey"
    /\ \E ok \in BOOLEAN :
         IF ok THEN Continues /\ Call("cliutil.GetEthereumPrivateKey")
               ELSE Returns(TRUE) /\ CallFails("cliutil.GetEthereumPrivateKey")
    /\ UNCHANGED <<swapVars, instVars, flags, dpc, ctxDone, sig, d, comp, handler, chainID,
                   factoryArg, deferred, log>>

\* newBackend 513-531
Backend_ContractFlags ==
    /\ Alive /\ mpc = "ContractFlags"
    /\ IF ContractAddressChoice(flags).err
       THEN Returns(TRUE) /\ CallFails("contractFlags")
       ELSE Continues /\ Call("contractFlags")
    /\ UNCHANGED <<swapVars, instVars, flags, dpc, ctxDone, sig, d, comp, handler, chainID,
                   factoryArg, deferred, log>>

\* newBackend 533-536
Backend_GetOrDeploy ==
    /\ Alive /\ mpc = "GetOrDeploy"
    /\ factoryArg' = ContractAddressChoice(flags).addr
    /\ \E ok \in BOOLEAN :
         IF ok THEN /\ Continues
                    /\ Call("getOrDeploySwapFactory")
                    /\ comp' = [comp EXCEPT !.contract = "bound"]
               ELSE /\ Returns(TRUE)
                    /\ CallFails("getOrDeploySwapFactory")
                    /\ UNCHANGED comp
    /\ UNCHANGED <<swapVars, instVars, flags, dpc, ctxDone, sig, d, handler, chainID, deferred, log>>

\* newBackend 538-567
Backend_NewWalletClient ==
    /\ Alive /\ mpc = "NewWalletClient"
    /\ \E ok \in BOOLEAN :
         IF ok THEN /\ Continues
                    /\ Call("monero.NewWalletClient")
                    /\ comp' = [comp EXCEPT !.wallet = "open"]
               ELSE /\ Returns(TRUE)
                    /\ CallFails("monero.NewWalletClient")
                    /\ UNCHANGED comp
    /\ UNCHANGED <<swapVars, instVars, flags, dpc, ctxDone, sig, d, handler, chainID, factoryArg,
                   deferred, log>>

\* newBackend 569-589 and make 411-414: on failure the wallet client is
\* closed; on success make defers backend.Close()
Backend_NewBackend ==
    /\ Alive /\ mpc = "NewBackend"
    /\ \E ok \in BOOLEAN :
         IF ok THEN /\ Continues
                    /\ Call("backend.NewBackend")
                    /\ UNCHANGED log
                    /\ comp' = [comp EXCEPT !.backend = "created"]
                    /\ deferred' = TRUE
               ELSE /\ Returns(TRUE)
                    /\ CallFails("backend.NewBackend")
                    /\ Log("mc.Close")
                    /\ comp' = [comp EXCEPT !.wallet = "closed"]
                    /\ UNCHANGED deferred
    /\ UNCHANGED <<swapVars, instVars, flags, dpc, ctxDone, sig, d, handler, chainID, factoryArg>>

\* getProtocolInstances 594-616
Make_NewXMRTaker ==
    /\ Alive /\ mpc = "NewXMRTaker"
    /\ \E ok \in BOOLEAN :
         IF ok THEN /\ Continues
                    /\ Call("xmrtaker.NewInstance")
                    /\ comp' = [comp EXCEPT !.xmrtaker = "created"]
               ELSE /\ Returns(TRUE)
                    /\ CallFails("xmrtaker.NewInstance")
                    /\ UNCHANGED comp
    /\ UNCHANGED <<swapVars, instVars, flags, dpc, ctxDone, sig, d, handler, chainID, factoryArg,
                   deferred, log>>

\* getProtocolInstances 618-632
Make_NewXMRMaker ==
    /\ Alive /\ mpc = "NewXMRMaker"
    /\ \E ok \in BOOLEAN :
         IF ok THEN /\ Continues
                    /\ Call("xmrmaker.NewInstance")
                    /\ comp' = [comp EXCEPT !.xmrmaker = "created"]
               ELSE /\ Returns(TRUE)
                    /\ CallFails("xmrmaker.NewInstance")
                    /\ UNCHANGED comp
    /\ UNCHANGED <<swapVars, instVars, flags, dpc, ctxDone, sig, d, handler, chainID, factoryArg,
                   deferred, log>>

Make_SetHandler ==
    /\ Alive /\ mpc = "SetHandler"
    /\ Call("host.SetHandler")
    /\ Continues
    /\ handler' = SetHandlerArg("xmrtaker", "xmrmaker")
    /\ UNCHANGED <<swapVars, instVars, flags, dpc, ctxDone, sig, d, comp, chainID, factoryArg,
                   deferred, log>>

Make_HostStart ==
    /\ Alive /\ mpc = "HostStart"
    /\ \E ok \in BOOLEAN :
         IF ok THEN /\ Continues
                    /\ Call("host.Start")
                    /\ comp' = [comp EXCEPT !.host = "started"]
               ELSE /\ Returns(TRUE)
                    /\ CallFails("host.Start")
                    /\ UNCHANGED comp
    /\ UNCHANGED <<swapVars, instVars, flags, dpc, ctxDone, sig, d, handler, chainID, factoryArg,
                   deferred, log>>

\* make 430-454
Make_NewServer ==
    /\ Alive /\ mpc = "NewServer"
    /\ \E ok \in BOOLEAN :
         IF ok THEN /\ Continues
                    /\ Call("rpc.NewServer")
                    /\ comp' = [comp EXCEPT !.rpcServer = "created"]
                    /\ d' = [d EXCEPT !.rpcServer = "set"]
               ELSE /\ Returns(TRUE)
                    /\ CallFails("rpc.NewServer")
                    /\ UNCHANGED <<comp, d>>
    /\ UNCHANGED <<swapVars, instVars, flags, dpc, ctxDone, sig, handler, chainID, factoryArg,
                   deferred, log>>

\* make 457-460: s.Start() serves until the server is stopped.  On a server
\* that was stopped already it returns http.ErrServerClosed at once, which
\* make turns into nil.
Make_RPCStart ==
    /\ Alive /\ mpc = "RPCStart"
    /\ IF comp.rpcServer = "stopped"
       THEN /\ Returns(FALSE)
            /\ Call("rpcServer.Start")
            /\ Log("rpcServer.Start")
            /\ UNCHANGED comp
       ELSE \E ok \in BOOLEAN :
              IF ok THEN /\ Continues
                         /\ Call("rpcServer.Start")
                         /\ Log("rpcServer.Start")
                         /\ comp' = [comp EXCEPT !.rpcServer = "serving"]
                    ELSE /\ Returns(TRUE)
                         /\ CallFails("rpcServer.Start")
                         /\ LogFails("rpcServer.Start")
                         /\ UNCHANGED comp
    /\ UNCHANGED <<swapVars, instVars, flags, dpc, ctxDone, sig, d, handler, chainID, factoryArg,
                   deferred>>

\* s.Start() returns: http.ErrServerClosed after a Stop (make returns nil),
\* or any other error of the server (make returns it)
Make_StartReturns ==
    /\ Alive /\ mpc = "Serving"
    /\ \/ /\ comp.rpcServer = "stopped"
          /\ Returns(FALSE)
          /\ Log("Start returns")
          /\ UNCHANGED comp
       \/ /\ comp.rpcServer = "serving"
          /\ Returns(TRUE)
          /\ LogFails("Start returns")
          /\ comp' = [comp EXCEPT !.rpcServer = "failed"]
    /\ UNCHANGED <<swapVars, instVars, flags, dpc, ctxDone, sig, d, handler, chainID, factoryArg,
                   deferred, calls>>

\* make's deferred backend.Close() (414), run as make returns
Make_Deferred ==
    /\ Alive /\ mpc = "return"
    /\ IF deferred
       THEN /\ Log("backend.Close")
            /\ comp' = [comp EXCEPT !.backend = "closed", !.wallet = "closed"]
       ELSE UNCHANGED <<comp, log>>
    /\ mpc' = IF makeErr THEN "cancel" ELSE "done"
    /\ UNCHANGED <<swapVars, instVars, flags, dpc, makeErr, ctxDone, sig, d, handler, chainID,
                   factoryArg, deferred, calls>>

\* runDaemon 269-272: the goroutine cancels the root context when make failed
Go_Cancel ==
    /\ Alive /\ mpc = "cancel"
    /\ Log("cancel")
    /\ ctxDone' = TRUE
    /\ mpc' = "done"
    /\ UNCHANGED <<swapVars, instVars, flags, dpc, makeErr, sig, d, comp, handler, chainID,
                   factoryArg, deferred, calls>>

(***************************************************************************)
(* runDaemon and daemon.stop                                               *)
(***************************************************************************)
\* what a method called on a nil *db.Database or nil *rpc.Server does: the
\* method is entered with a nil receiver and either dereferences it (a
\* panic) or returns
NilReceiverOutcomes == {"panic", "return"}

\* runDaemon 255-273: the log level, the root context, the daemon, and the
\* goroutine that runs d.make
RunDaemon_Start ==
    /\ dpc = "start"
    /\ \E ok \in BOOLEAN :
         IF ok THEN dpc' = "wait" /\ mpc' = "GetEnvironment"
               ELSE dpc' = "exited" /\ UNCHANGED mpc
    /\ UNCHANGED <<swapVars, instVars, flags, makeErr, ctxDone, sig, d, comp, handler, chainID,
                   factoryArg, deferred, calls, log>>

\* the operator (or the system) asks the daemon to shut down
Signal ==
    /\ dpc = "wait" /\ ~sig
    /\ sig' = TRUE
    /\ UNCHANGED <<swapVars, instVars, flags, dpc, mpc, makeErr, ctxDone, d, comp, handler,
                   chainID, factoryArg, deferred, calls, log>>

\* d.wait() returns: on a shutdown signal or when the root context is done
Wait ==
    /\ dpc = "wait" /\ (sig \/ ctxDone)
    /\ dpc' = "stop.database"
    /\ Log("d.wait")
    /\ UNCHANGED <<swapVars, instVars, flags, mpc, makeErr, ctxDone, sig, d, comp, handler,
                   chainID, factoryArg, deferred, calls>>

\* stop 286-289
Stop_Database ==
    /\ dpc = "stop.database"
    /\ IF d.database = "nil"
       THEN /\ \E o \in NilReceiverOutcomes :
                 dpc' = IF o = "panic" THEN "panicked" ELSE "stop.host"
            /\ Log("database.Close")
            /\ UNCHANGED comp
       ELSE \E ok \in BOOLEAN :
              IF ok THEN /\ comp' = [comp EXCEPT !.database = "closed"]
                         /\ Log("database.Close")
                         /\ dpc' = "stop.host"
                    ELSE /\ comp' = [comp EXCEPT !.database = "closeFailed"]
                         /\ LogFails("database.Close")
                         /\ dpc' = "return"
    /\ UNCHANGED <<swapVars, instVars, flags, mpc, makeErr, ctxDone, sig, d, handler, chainID,
                   factoryArg, deferred, calls>>

\* stop 291-294: d.host is an interface; a call on a nil interface panics
Stop_Host ==
    /\ dpc = "stop.host"
    /\ IF d.host = "nil"
       THEN dpc' = "panicked" /\ Log("host.Stop") /\ UNCHANGED comp
       ELSE \E ok \in BOOLEAN :
              IF ok THEN /\ comp' = [comp EXCEPT !.host = "stopped"]
                         /\ Log("host.Stop")
                         /\ dpc' = "stop.rpcServer"
                    ELSE /\ comp' = [comp EXCEPT !.host = "stopFailed"]
                         /\ LogFails("host.Stop")
                         /\ dpc' = "return"
    /\ UNCHANGED <<swapVars, instVars, flags, mpc, makeErr, ctxDone, sig, d, handler, chainID,
                   factoryArg, deferred, calls>>

\* stop 296-301
Stop_RPCServer ==
    /\ dpc = "stop.rpcServer"
    /\ IF d.rpcServer = "nil"
       THEN /\ \E o \in NilReceiverOutcomes :
                 dpc' = IF o = "panic" THEN "panicked" ELSE "return"
            /\ Log("rpcServer.Stop")
            /\ UNCHANGED comp
       ELSE /\ \E ok \in BOOLEAN :
                 IF ok THEN /\ comp' = [comp EXCEPT !.rpcServer = "stopped"]
                            /\ Log("rpcServer.Stop")
                       ELSE /\ comp' = [comp EXCEPT !.rpcServer = "stopFailed"]
                            /\ LogFails("rpcServer.Stop")
            /\ dpc' = "return"
    /\ UNCHANGED <<swapVars, instVars, flags, mpc, makeErr, ctxDone, sig, d, handler, chainID,
                   factoryArg, deferred, calls>>

\* runDaemon 277-283 with its deferred cancel (260): runDaemon returns nil,
\* app.Run returns and main ends the process
RunDaemon_Return ==
    /\ dpc = "return"
    /\ Log("cancel")
    /\ ctxDone' = TRUE
    /\ dpc' = "exited"
    /\ UNCHANGED <<swapVars, instVars, flags, mpc, makeErr, sig, d, comp, handler, chainID,
                   factoryArg, deferred, calls>>

(***************************************************************************)
(* The daemon's specification                                              *)
(***************************************************************************)
Flags == [devXMRMaker : BOOLEAN, devXMRTaker : BOOLEAN, deploy : BOOLEAN,
          contractAddress : ContractAddressFlagValues,
          cfgContractAddress : ConfigAddresses]

DaemonInit ==
    /\ flags \in Flags
    /\ dpc = "start"
    /\ mpc = "idle"
    /\ makeErr = FALSE
    /\ ctxDone = FALSE
    /\ sig = FALSE
    /\ d = [host |-> "nil", database |-> "nil", rpcServer |-> "nil"]
    /\ comp = [c \in Components |-> "none"]
    /\ handler = "none"
    /\ chainID = "unknown"
    /\ factoryArg = NoCall
    /\ deferred = FALSE
    /\ calls = <<>>
    /\ log = <<>>

DaemonNext ==
    \/ RunDaemon_Start
    \/ Make_GetEnvironment
    \/ Make_CheckDevFlags
    \/ Make_MakeDir
    \/ Make_Dial
    \/ Make_ChainID
    \/ Make_NewHost
    \/ Make_NewDatabase
    \/ Make_NewManager
    \/ Backend_EthKey
    \/ Backend_ContractFlags
    \/ Backend_GetOrDeploy
    \/ Backend_NewWalletClient
    \/ Backend_NewBackend
    \/ Make_NewXMRTaker
    \/ Make_NewXMRMaker
    \/ Make_SetHandler
    \/ Make_HostStart
    \/ Make_NewServer
    \/ Make_RPCStart
    \/ Make_StartReturns
    \/ Make_Deferred
    \/ Go_Cancel
    \/ Signal
    \/ Wait
    \/ Stop_Database
    \/ Stop_Host
    \/ Stop_RPCServer
    \/ RunDaemon_Return

(***************************************************************************)
(* The swap: contract and both parties, from the specification (4.4, 6).   *)
(* Every transaction a party submits waits in the mempool and enters a     *)
(* block at any later time; every message is delivered at any later time.  *)
(***************************************************************************)
\* the contract's deadlines, in chain time since new_swap: set_ready and an
\* early refund before T1, claim from T1 and before T2, refund again from T2
T1 == 2

T2 == 4

\* the chain time up to which the swap is followed
MaxTime == 5

Never == -1

Terminal == {"Claimed", "Refunded", "Aborted"}

\* faulty variant: an aborted record still follows the chain
Locked_AndAborted == {"ETHLocked", "XMRLocked", "ReadyToClaim", "Aborted"}

\* states in which a party has funds at stake (S3 and later)
Locked == {"ETHLocked", "XMRLocked", "ReadyToClaim"}

KeyExchange(from, ok) == [type |-> "KeyExchange", from |-> from, ok |-> ok]

\* a reverted transaction: which, at what chain time, and what the swap was then
Reverted(tx, t, c) == [tx |-> tx, at |-> t, was |-> c]

NotifyXMRLocked == [type |-> "NotifyXMRLocked", from |-> "maker", ok |-> TRUE]

\* faulty variant: set_ready is taken between t1 and t2
SetReadyAccepted_BetweenT1T2(c, t) == c = "pending" /\ T1 <= t /\ t < T2

\* set_ready(swap_id): only by the initiator, only before t1
SetReadyAccepted(c, t) == c = "pending" /\ t < T1

\* faulty variant: claim has no deadline
ClaimAccepted_NoDeadline(c, t) == c = "ready" /\ T1 <= t

\* claim(swap_id, secret): after set_ready, between t1 and t2, and only while
\* the swap is neither claimed nor refunded
ClaimAccepted(c, t) == c = "ready" /\ T1 <= t /\ t < T2

\* faulty variant: refund does not look at what became of the swap
RefundAccepted_Anytime(c, t) == c # "none"

\* faulty variant: refund has no second window
RefundAccepted_OnlyEarly(c, t) == c = "pending" /\ t < T1

\* refund(swap_id, secret): before t1 unless set_ready was called, or after
\* t2, and only while the swap is neither claimed nor refunded
RefundAccepted(c, t) ==
    \/ c = "pending" /\ t < T1
    \/ c \in {"pending", "ready"} /\ t >= T2

\* chain time passes
Tick ==
    /\ cstate # "none" /\ now < MaxTime
    /\ now' = now + 1
    /\ UNCHANGED <<daemonVars, instVars, readySentAt, reverted, cstate, mempool, ts, ms, eth, xmr, net, sent,
                   claimedAt, refundedAt, readyAt>>

\* S0 -> S1 of either party: the offer is validated; the party then sends its
\* KeyExchange message (its proof arrives intact or not)
Taker_Offer ==
    /\ ts = "Created"
    /\ \/ ts' = "Aborted" /\ UNCHANGED net
       \/ /\ ts' = "OfferAccepted"
          /\ \E ok \in BOOLEAN : net' = net \cup {KeyExchange("taker", ok)}
    /\ UNCHANGED <<daemonVars, instVars, readySentAt, reverted, now, cstate, mempool, ms, eth, xmr, sent,
                   claimedAt, refundedAt, readyAt>>

Maker_Offer ==
    /\ ms = "Created"
    /\ \/ ms' = "Aborted" /\ UNCHANGED net
       \/ /\ ms' = "OfferAccepted"
          /\ \E ok \in BOOLEAN : net' = net \cup {KeyExchange("maker", ok)}
    /\ UNCHANGED <<daemonVars, instVars, readySentAt, reverted, now, cstate, mempool, ts, eth, xmr, sent,
                   claimedAt, refundedAt, readyAt>>

\* S1 -> S2: the counterparty's keys arrive; an invalid proof aborts
Taker_Keys ==
    /\ ts = "OfferAccepted"
    /\ \E m \in net :
         /\ m.type = "KeyExchange" /\ m.from = "maker"
         /\ net' = net \ {m}
         /\ ts' = IF m.ok THEN "KeysExchanged" ELSE "Aborted"
    /\ UNCHANGED <<daemonVars, instVars, readySentAt, reverted, now, cstate, mempool, ms, eth, xmr, sent,
                   claimedAt, refundedAt, readyAt>>

Maker_Keys ==
    /\ ms = "OfferAccepted"
    /\ \E m \in net :
         /\ m.type = "KeyExchange" /\ m.from = "taker"
         /\ net' = net \ {m}
         /\ ms' = IF m.ok THEN "KeysExchanged" ELSE "Aborted"
    /\ UNCHANGED <<daemonVars, instVars, readySentAt, reverted, now, cstate, mempool, ts, eth, xmr, sent,
                   claimedAt, refundedAt, readyAt>>

\* faulty variant: the taker gives up on a lock it has already submitted
Taker_Abort_AfterSubmit ==
    /\ ts \in {"OfferAccepted", "KeysExchanged"}
    /\ ts' = "Aborted"
    /\ UNCHANGED <<daemonVars, instVars, readySentAt, reverted, now, cstate, mempool, ms, eth,
                   xmr, net, sent, claimedAt, refundedAt, readyAt>>

\* a local deadline passes before S3: no keys from the peer, or (taker) the
\* lock was not made, or (maker) the lock was not observed in time
Taker_Abort ==
    /\ \/ ts = "OfferAccepted"
       \/ ts = "KeysExchanged" /\ "new_swap" \notin sent
    /\ ts' = "Aborted"
    /\ UNCHANGED <<daemonVars, instVars, readySentAt, reverted, now, cstate, mempool, ms, eth, xmr, net, sent,
                   claimedAt, refundedAt, readyAt>>

Maker_Abort ==
    /\ ms \in {"OfferAccepted", "KeysExchanged"}
    /\ ms' = "Aborted"
    /\ UNCHANGED <<daemonVars, instVars, readySentAt, reverted, now, cstate, mempool, ts, eth, xmr, net, sent,
                   claimedAt, refundedAt, readyAt>>

\* a party submits a transaction
Submit(tx) ==
    /\ tx \notin mempool
    /\ mempool' = mempool \cup {tx}
    /\ sent' = sent \cup {tx}

\* S2 -> S3, taker: new_swap is submitted ...
Taker_SubmitNewSwap ==
    /\ ts = "KeysExchanged" /\ "new_swap" \notin sent
    /\ Submit("new_swap")
    /\ UNCHANGED <<daemonVars, instVars, readySentAt, reverted, now, cstate, ts, ms, eth, xmr, net, claimedAt,
                   refundedAt, readyAt>>

\* ... and enters a block: the ETH is locked in the contract
Mine_NewSwap ==
    /\ "new_swap" \in mempool
    /\ mempool' = mempool \ {"new_swap"}
    /\ cstate' = "pending"
    /\ eth' = "contract"
    /\ UNCHANGED <<daemonVars, instVars, readySentAt, reverted, now, ts, ms, xmr, net, sent, claimedAt,
                   refundedAt, readyAt>>

Taker_ObserveNew ==
    /\ ts = "KeysExchanged" /\ cstate # "none"
    /\ ts' = "ETHLocked"
    /\ UNCHANGED <<daemonVars, instVars, readySentAt, reverted, now, cstate, mempool, ms, eth, xmr, net, sent,
                   claimedAt, refundedAt, readyAt>>

\* S2 -> S3, maker: the New log is observed
Maker_ObserveNew ==
    /\ ms = "KeysExchanged" /\ cstate # "none"
    /\ ms' = "ETHLocked"
    /\ UNCHANGED <<daemonVars, instVars, readySentAt, reverted, now, cstate, mempool, ts, eth, xmr, net, sent,
                   claimedAt, refundedAt, readyAt>>

\* S3 -> S4, maker: the XMR goes to the joint address and the taker is told
Maker_LockXMR ==
    /\ ms = "ETHLocked"
    /\ ms' = "XMRLocked"
    /\ xmr' = "joint"
    /\ net' = net \cup {NotifyXMRLocked}
    /\ sent' = sent \cup {"xmr_transfer"}
    /\ UNCHANGED <<daemonVars, instVars, readySentAt, reverted, now, cstate, mempool, ts, eth,
                   claimedAt, refundedAt, readyAt>>

\* S3 -> S4, taker: the XMR lock is verified and set_ready is submitted
Taker_VerifyXMR ==
    /\ ts = "ETHLocked" /\ cstate = "pending"
    /\ NotifyXMRLocked \in net /\ xmr = "joint"
    /\ net' = net \ {NotifyXMRLocked}
    /\ ts' = "XMRLocked"
    /\ Submit("set_ready")
    /\ readySentAt' = now
    /\ UNCHANGED <<daemonVars, instVars, reverted, now, cstate, ms, eth, xmr, claimedAt,
                   refundedAt, readyAt>>

Mine_SetReady ==
    /\ "set_ready" \in mempool
    /\ mempool' = mempool \ {"set_ready"}
    /\ IF SetReadyAccepted(cstate, now)
       THEN cstate' = "ready" /\ readyAt' = now /\ UNCHANGED reverted
       ELSE /\ reverted' = reverted \cup {Reverted("set_ready", now, cstate)}
            /\ UNCHANGED <<cstate, readyAt>>
    /\ UNCHANGED <<daemonVars, instVars, readySentAt, now, ts, ms, eth, xmr, net, sent, claimedAt,
                   refundedAt>>

\* S4 -> S5: each party observes the Ready event
Taker_ObserveReady ==
    /\ ts = "XMRLocked" /\ cstate = "ready"
    /\ ts' = "ReadyToClaim"
    /\ UNCHANGED <<daemonVars, instVars, readySentAt, reverted, now, cstate, mempool, ms, eth, xmr, net, sent,
                   claimedAt, refundedAt, readyAt>>

Maker_ObserveReady ==
    /\ ms = "XMRLocked" /\ cstate = "ready"
    /\ ms' = "ReadyToClaim"
    /\ UNCHANGED <<daemonVars, instVars, readySentAt, reverted, now, cstate, mempool, ts, eth, xmr, net, sent,
                   claimedAt, refundedAt, readyAt>>

\* S5, maker: claim(secret_m) is submitted (again, if it was reverted)
Maker_SubmitClaim ==
    /\ ms = "ReadyToClaim" /\ cstate = "ready"
    /\ Submit("claim")
    /\ UNCHANGED <<daemonVars, instVars, readySentAt, reverted, now, cstate, ts, ms, eth, xmr, net, claimedAt,
                   refundedAt, readyAt>>

Mine_Claim ==
    /\ "claim" \in mempool
    /\ mempool' = mempool \ {"claim"}
    /\ IF ClaimAccepted(cstate, now)
       THEN /\ cstate' = "claimed" /\ eth' = "maker" /\ claimedAt' = now
            /\ UNCHANGED reverted
       ELSE /\ reverted' = reverted \cup {Reverted("claim", now, cstate)}
            /\ UNCHANGED <<cstate, eth, claimedAt>>
    /\ UNCHANGED <<daemonVars, instVars, readySentAt, now, ts, ms, xmr, net, sent, refundedAt,
                   readyAt>>

\* the taker's refund path: before the XMR lock was verified at any time
\* (timeout, mismatch); afterwards when t2 has passed without a claim
Taker_SubmitRefund ==
    /\ \/ ts = "ETHLocked"
       \/ ts \in {"XMRLocked", "ReadyToClaim"} /\ now >= T2
    /\ cstate \in {"pending", "ready"}
    /\ Submit("refund")
    /\ UNCHANGED <<daemonVars, instVars, readySentAt, reverted, now, cstate, ts, ms, eth, xmr, net, claimedAt,
                   refundedAt, readyAt>>

Mine_Refund ==
    /\ "refund" \in mempool
    /\ mempool' = mempool \ {"refund"}
    /\ IF RefundAccepted(cstate, now)
       THEN /\ cstate' = "refunded" /\ eth' = "taker" /\ refundedAt' = now
            /\ UNCHANGED reverted
       ELSE /\ reverted' = reverted \cup {Reverted("refund", now, cstate)}
            /\ UNCHANGED <<cstate, eth, refundedAt>>
    /\ UNCHANGED <<daemonVars, instVars, readySentAt, now, ts, ms, xmr, net, sent, claimedAt,
                   readyAt>>

\* Claimed{secret_m}: the taker rebuilds the joint spend key and sweeps
Taker_ObserveClaimed ==
    /\ ts \in Locked /\ cstate = "claimed"
    /\ ts' = "Claimed"
    /\ xmr' = "taker"
    /\ UNCHANGED <<daemonVars, instVars, readySentAt, reverted, now, cstate, mempool, ms, eth, net, sent,
                   claimedAt, refundedAt, readyAt>>

Maker_ObserveClaimed ==
    /\ ms \in Locked /\ cstate = "claimed"
    /\ ms' = "Claimed"
    /\ UNCHANGED <<daemonVars, instVars, readySentAt, reverted, now, cstate, mempool, ts, eth, xmr, net, sent,
                   claimedAt, refundedAt, readyAt>>

Taker_ObserveRefunded ==
    /\ ts \in Locked /\ cstate = "refunded"
    /\ ts' = "Refunded"
    /\ UNCHANGED <<daemonVars, instVars, readySentAt, reverted, now, cstate, mempool, ms, eth, xmr, net, sent,
                   claimedAt, refundedAt, readyAt>>

\* Refunded{secret_t}: the maker sweeps its XMR back from the joint address
Maker_ObserveRefunded ==
    /\ ms \in Locked /\ cstate = "refunded"
    /\ ms' = "Refunded"
    /\ xmr' = IF xmr = "joint" THEN "maker" ELSE xmr
    /\ UNCHANGED <<daemonVars, instVars, readySentAt, reverted, now, cstate, mempool, ts, eth, net, sent,
                   claimedAt, refundedAt, readyAt>>

SwapInit ==
    /\ now = 0
    /\ cstate = "none"
    /\ mempool = {}
    /\ ts = "Created"
    /\ ms = "Created"
    /\ eth = "taker"
    /\ xmr = "maker"
    /\ net = {}
    /\ sent = {}
    /\ claimedAt = Never
    /\ refundedAt = Never
    /\ readyAt = Never
    /\ reverted = {}
    /\ readySentAt = Never

SwapNext ==
    \/ Tick
    \/ Taker_Offer
    \/ Maker_Offer
    \/ Taker_Keys
    \/ Maker_Keys
    \/ Taker_Abort
    \/ Maker_Abort
    \/ Taker_SubmitNewSwap
    \/ Mine_NewSwap
    \/ Taker_ObserveNew
    \/ Maker_ObserveNew
    \/ Maker_LockXMR
    \/ Taker_VerifyXMR
    \/ Mine_SetReady
    \/ Taker_ObserveReady
    \/ Maker_ObserveReady
    \/ Maker_SubmitClaim
    \/ Mine_Claim
    \/ Taker_SubmitRefund
    \/ Mine_Refund
    \/ Taker_ObserveClaimed
    \/ Maker_ObserveClaimed
    \/ Taker_ObserveRefunded
    \/ Maker_ObserveRefunded

(***************************************************************************)
(* The XMRTaker instance (package xmrtaker, main.go 634-754): NewInstance  *)
(* with getAddress, and Instance.Refund and Instance.GetOngoingSwapState   *)
(* as the RPC layer calls them.  The swap manager, the code that sets and  *)
(* clears Instance.swapState and                                           *)
(* swapState.doRefund are not part of these sources and are modelled from  *)
(* the specification (3, 4.3, 4.4.1).                                      *)
(***************************************************************************)
Nil == "nil"

\* a nil *swapState
NoSwap == 0

\* ethcommon.Hash{}
ZeroHash == 0

swapDepositWallet == "swap-deposit-wallet"

\* values of Config.MoneroWalletFile in the runs explored
WalletFiles == {"", "taker-wallet"}

Configs == [TransferBack : BOOLEAN, MoneroWalletFile : WalletFiles]

Callers == {"rpc1", "rpc2"}

Peers == {"peerA", "peerB"}

\* new_swap requests followed
MaxRequests == 3

\* monero wallet addresses: mcrypto.Address(address.Address) of the open wallet
AddressOf(w) ==
    CASE w = swapDepositWallet -> "4DepositWalletAddress"
      [] w = "taker-wallet" -> "4TakerWalletAddress"
      [] OTHER -> ""

\* the struct literal NewInstance returns (698-704): transferBack is not
\* among the fields it sets and keeps bool's zero value
InstanceOf(c, a) ==
    [walletFile |-> c.MoneroWalletFile, walletAddress |-> a,
     transferBack |-> FALSE]

\* the process runs: main has not returned
Running == dpc # "exited"

\* NewInstance 685-695
NewInstance_Start ==
    /\ Running /\ ipc = "start"
    /\ IF cfg.TransferBack
       THEN ipc' = "getAddress" /\ UNCHANGED inst
       ELSE ipc' = "done" /\ inst' = <<InstanceOf(cfg, address)>>
    /\ UNCHANGED <<daemonVars, swapVars, cfg, wallet, address, swapMu, swapState,
                   registry, finished, requests, lastStart, singleSwap, rpc, ret,
                   submitted, observed>>

\* getAddress 708-722: open the configured wallet, or create the deposit
\* wallet, or open it when it cannot be created
GetAddress_Open ==
    /\ Running /\ ipc = "getAddress"
    /\ IF cfg.MoneroWalletFile # ""
       THEN \E ok \in BOOLEAN :
              IF ok THEN wallet' = cfg.MoneroWalletFile /\ ipc' = "GetAddress"
                    ELSE UNCHANGED wallet /\ ipc' = "failed"
       ELSE \E r \in {"created", "opened", "error"} :
              IF r = "error" THEN UNCHANGED wallet /\ ipc' = "failed"
              ELSE wallet' = swapDepositWallet /\ ipc' = "GetAddress"
    /\ UNCHANGED <<daemonVars, swapVars, cfg, address, inst, swapMu, swapState,
                   registry, finished, requests, lastStart, singleSwap, rpc, ret,
                   submitted, observed>>

\* getAddress 725-728
GetAddress_GetAddress ==
    /\ Running /\ ipc = "GetAddress"
    /\ \E ok \in BOOLEAN :
         IF ok THEN address' = AddressOf(wallet) /\ ipc' = "CloseWallet"
               ELSE UNCHANGED address /\ ipc' = "failed"
    /\ UNCHANGED <<daemonVars, swapVars, cfg, wallet, inst, swapMu, swapState,
                   registry, finished, requests, lastStart, singleSwap, rpc, ret,
                   submitted, observed>>

\* getAddress 730-735: a CloseWallet that returns an error has closed the
\* wallet or has not
GetAddress_CloseWallet ==
    /\ Running /\ ipc = "CloseWallet"
    /\ \E ok \in BOOLEAN :
         IF ok THEN wallet' = "" /\ ipc' = "return"
               ELSE wallet' \in {wallet, ""} /\ ipc' = "failed"
    /\ UNCHANGED <<daemonVars, swapVars, cfg, address, inst, swapMu, swapState,
                   registry, finished, requests, lastStart, singleSwap, rpc, ret,
                   submitted, observed>>

\* NewInstance 697-704, after getAddress returned the address
NewInstance_Return ==
    /\ Running /\ ipc = "return"
    /\ inst' = <<InstanceOf(cfg, address)>>
    /\ ipc' = "done"
    /\ UNCHANGED <<daemonVars, swapVars, cfg, wallet, address, swapMu, swapState,
                   registry, finished, requests, lastStart, singleSwap, rpc, ret,
                   submitted, observed>>

\* faulty variant: the manager looks at no registry
AlreadyActive_Never(p) == FALSE

\* new_swap's refusal: the peer has a non-terminal swap, or the process
\* holds any active swap in single-swap mode
AlreadyActive(p) ==
    \/ \E r \in registry : r.peer = p
    \/ singleSwap /\ registry # {}

StartResult(p, n, result) == [peer |-> p, n |-> n, result |-> result]

\* new_swap(offer) of the manager; a swap that starts while the instance
\* drives none takes the instance's slot
Manager_NewSwap ==
    /\ Running /\ inst # <<>> /\ swapMu = "free" /\ requests < MaxRequests
    /\ requests' = requests + 1
    /\ \E p \in Peers :
         IF AlreadyActive(p)
         THEN /\ lastStart' = StartResult(p, requests', "AlreadyActive")
              /\ UNCHANGED <<registry, swapState>>
         ELSE /\ lastStart' = StartResult(p, requests', "started")
              /\ registry' = registry \cup {[peer |-> p, id |-> requests']}
              /\ swapState' = IF swapState = NoSwap THEN requests' ELSE swapState
    /\ UNCHANGED <<daemonVars, swapVars, cfg, ipc, wallet, address, inst, swapMu,
                   finished, singleSwap, rpc, ret, submitted, observed>>

\* complete(swap_id, terminal_state): the swap leaves the registry and frees
\* the slot it held
Manager_Complete ==
    /\ Running /\ swapMu = "free"
    /\ \E r \in registry :
         /\ registry' = registry \ {r}
         /\ finished' = finished \cup {r.id}
         /\ swapState' = IF swapState = r.id THEN NoSwap ELSE swapState
    /\ UNCHANGED <<daemonVars, swapVars, cfg, ipc, wallet, address, inst, swapMu,
                   requests, lastStart, singleSwap, rpc, ret, submitted,
                   observed>>

\* faulty variant: Lock does not wait
CanLock_Always(mu) == TRUE

\* sync.Mutex.Lock returns when the mutex is free
CanLock(mu) == mu = "free"

\* Refund's test a.swapState == nil (744)
NoOngoingSwap(st) == st = NoSwap

\* Refund 741-742
Refund_Lock(c) ==
    /\ Running /\ inst # <<>> /\ rpc[c] = "idle"
    /\ CanLock(swapMu)
    /\ swapMu' = c
    /\ rpc' = [rpc EXCEPT ![c] = "locked"]
    /\ UNCHANGED <<daemonVars, swapVars, cfg, ipc, wallet, address, inst, swapState,
                   registry, finished, requests, lastStart, singleSwap, ret,
                   submitted, observed>>

\* Refund 744-746
Refund_Check(c) ==
    /\ Running /\ rpc[c] = "locked"
    /\ IF NoOngoingSwap(swapState)
       THEN /\ ret' = [ret EXCEPT ![c] = [hash |-> ZeroHash,
                                          err |-> "errNoOngoingSwap"]]
            /\ rpc' = [rpc EXCEPT ![c] = "unlock"]
       ELSE /\ rpc' = [rpc EXCEPT ![c] = "doRefund"]
            /\ UNCHANGED ret
    /\ UNCHANGED <<daemonVars, swapVars, cfg, ipc, wallet, address, inst, swapMu,
                   swapState, registry, finished, requests, lastStart, singleSwap,
                   submitted, observed>>

\* Refund 748: swapState.doRefund() calls refund(secret_t) on the contract;
\* each transaction is kept with whether the root context was done then
Refund_DoRefund(c) ==
    /\ Running /\ rpc[c] = "doRefund"
    /\ \E ok \in BOOLEAN :
         IF ok
         THEN /\ submitted' = submitted \cup {[by |-> c, cancelled |-> ctxDone]}
              /\ ret' = [ret EXCEPT ![c] = [hash |-> 1, err |-> "nil"]]
         ELSE /\ UNCHANGED submitted
              /\ ret' = [ret EXCEPT ![c] = [hash |-> ZeroHash, err |-> "error"]]
    /\ rpc' = [rpc EXCEPT ![c] = "unlock"]
    /\ UNCHANGED <<daemonVars, swapVars, cfg, ipc, wallet, address, inst, swapMu,
                   swapState, registry, finished, requests, lastStart, singleSwap,
                   observed>>

\* Refund 742: the deferred Unlock
Refund_Unlock(c) ==
    /\ Running /\ rpc[c] = "unlock"
    /\ swapMu' = "free"
    /\ rpc' = [rpc EXCEPT ![c] = "idle"]
    /\ UNCHANGED <<daemonVars, swapVars, cfg, ipc, wallet, address, inst, swapState,
                   registry, finished, requests, lastStart, singleSwap, ret,
                   submitted, observed>>

\* GetOngoingSwapState 752-754: one read of a.swapState, with no call of
\* swapMu.Lock; the value goes back to the RPC layer, and what is kept of the
\* read is its caller and who held swapMu when it was made
GetOngoingSwapState(c) ==
    /\ Running /\ inst # <<>> /\ rpc[c] = "idle"
    /\ observed' = [by |-> c, holder |-> swapMu]
    /\ UNCHANGED <<daemonVars, swapVars, cfg, ipc, wallet, address, inst, swapMu,
                   swapState, registry, finished, requests, lastStart, singleSwap,
                   rpc, ret, submitted>>

\* runDaemon's cancel() (260, 271): the root context is done
Root_Cancel ==
    /\ Running /\ ~ctxDone
    /\ ctxDone' = TRUE
    /\ UNCHANGED <<swapVars, instVars, flags, dpc, mpc, makeErr, sig, d, comp,
                   handler, chainID, factoryArg, deferred, calls, log>>

\* runDaemon has returned and main ends the process
Process_Exit ==
    /\ Running /\ ctxDone
    /\ dpc' = "exited"
    /\ UNCHANGED <<swapVars, instVars, flags, mpc, makeErr, ctxDone, sig, d, comp,
                   handler, chainID, factoryArg, deferred, calls, log>>

NoReturn == [hash |-> ZeroHash, err |-> "none"]

\* no call of GetOngoingSwapState yet
NoRead == [by |-> Nil, holder |-> Nil]

InstanceInit ==
    /\ cfg \in Configs
    /\ ipc = "start"
    /\ wallet = ""
    /\ address = ""
    /\ inst = <<>>
    /\ swapMu = "free"
    /\ swapState = NoSwap
    /\ registry = {}
    /\ finished = {}
    /\ requests = 0
    /\ lastStart = StartResult(Nil, 0, "none")
    /\ singleSwap \in BOOLEAN
    /\ rpc = [c \in Callers |-> "idle"]
    /\ ret = [c \in Callers |-> NoReturn]
    /\ submitted = {}
    /\ observed = NoRead

InstanceNext ==
    \/ NewInstance_Start
    \/ GetAddress_Open
    \/ GetAddress_GetAddress
    \/ GetAddress_CloseWallet
    \/ NewInstance_Return
    \/ Manager_NewSwap
    \/ Manager_Complete
    \/ \E c \in Callers : Refund_Lock(c)
    \/ \E c \in Callers : Refund_Check(c)
    \/ \E c \in Callers : Refund_DoRefund(c)
    \/ \E c \in Callers : Refund_Unlock(c)
    \/ \E c \in Callers : GetOngoingSwapState(c)
    \/ Root_Cancel
    \/ Process_Exit

(***************************************************************************)
(* Specifications                                                          *)
(***************************************************************************)
\* the daemon, with no swap in progress
\* the instance and the manager, not followed
InstanceAside ==
    /\ InstanceInit
    /\ cfg = [TransferBack |-> FALSE, MoneroWalletFile |-> ""]
    /\ singleSwap = TRUE

Init == DaemonInit /\ SwapInit /\ InstanceAside

Next == DaemonNext

Spec == Init /\ [][Next]_vars

\* one swap between two running daemons; the daemon's own lifecycle is not
\* followed
DaemonAside ==
    /\ DaemonInit
    /\ flags = [devXMRMaker |-> FALSE, devXMRTaker |-> FALSE, deploy |-> TRUE,
                contractAddress |-> Unset, cfgContractAddress |-> ZeroAddress]

SwapSpecInit == DaemonAside /\ SwapInit /\ InstanceAside

SwapSpec == SwapSpecInit /\ [][SwapNext]_vars

\* what the chain and the drivers do sooner or later: time passes, a
\* submitted transaction enters a block, a driver sees the log it waits
\* for, and a taker whose ETH is locked asks for its refund when it may
SwapFairness ==
    /\ WF_vars(Tick)
    /\ WF_vars(Mine_NewSwap) /\ WF_vars(Mine_SetReady)
    /\ WF_vars(Mine_Claim) /\ WF_vars(Mine_Refund)
    /\ WF_vars(Taker_ObserveNew)
    /\ WF_vars(Taker_ObserveClaimed) /\ WF_vars(Maker_ObserveClaimed)
    /\ WF_vars(Taker_ObserveRefunded) /\ WF_vars(Maker_ObserveRefunded)
    /\ WF_vars(Taker_SubmitRefund)

SwapFairSpec == SwapSpecInit /\ [][SwapNext]_vars /\ SwapFairness

\* the XMRTaker instance of a running daemon, its RPC callers and the manager
InstanceSpecInit == DaemonAside /\ SwapInit /\ InstanceInit

InstanceSpec == InstanceSpecInit /\ [][InstanceNext]_vars

(***************************************************************************)
(* Reading the log                                                         *)
(***************************************************************************)
In(seq, ev) == \E i \in DOMAIN seq : seq[i] = ev

\* the place of the first ev in seq, 0 when there is none
PosIn(seq, ev) ==
    IF In(seq, ev)
    THEN CHOOSE i \in DOMAIN seq : seq[i] = ev /\ \A j \in 1..(i - 1) : seq[j] # ev
    ELSE 0

\* ev is in seq and returned no error
SucceededIn(seq, ev) ==
    \E i \in DOMAIN seq :
        seq[i] = ev /\ (i = Len(seq) \/ seq[i + 1] # "error")

\* in the log of starts, stops and closes
Has(ev) == In(log, ev)

Pos(ev) == PosIn(log, ev)

\* among make's calls
Called(ev) == In(calls, ev)

CalledAt(ev) == PosIn(calls, ev)

IsPrefix(s, t) == Len(s) <= Len(t) /\ \A i \in DOMAIN s : s[i] = t[i]

Range(s) == {s[i] : i \in DOMAIN s}

\* runDaemon is over: it returned (and main ended the process) or panicked
Over == dpc \in {"exited", "panicked"}

\* make failed at a statement before s.Start()
MakeFailedBeforeRPC == makeErr /\ ~Called("rpcServer.Start")

\* d.wait returned while the RPC server, the last component, was serving
ShutdownOfStarted ==
    /\ Has("d.wait")
    /\ SucceededIn(log, "rpcServer.Start")
    /\ Pos("rpcServer.Start") < Pos("d.wait")

WalletClosePos == IF Has("backend.Close") THEN Pos("backend.Close")
                  ELSE Pos("mc.Close")

(***************************************************************************)
(* C1: if a step of make fails before the RPC server is started, no later  *)
(* startup step runs, and by the time runDaemon is over every component    *)
(* that was initialised (host, database, backend / wallet client) has been *)
(* stopped or closed, in the reverse of the order of initialisation.       *)
(* The code does not do this: stop() calls d.database.Close() first, on a  *)
(* nil database when make failed earlier, and returns at the first error.  *)
(***************************************************************************)
C1_FailureUnwinds ==
    /\ \A i \in DOMAIN calls :
         calls[i] = "error" => i = Len(calls)
    /\ (Over /\ MakeFailedBeforeRPC /\ ~sig) =>
         /\ comp.host # "none" => comp.host \in {"stopped", "stopFailed"}
         /\ comp.database # "none" =>
                comp.database \in {"closed", "closeFailed"}
         /\ comp.wallet # "none" => comp.wallet = "closed"
         /\ (Has("database.Close") /\ Has("host.Stop")) =>
                Pos("database.Close") < Pos("host.Stop")
         /\ (WalletClosePos > 0 /\ Has("database.Close")) =>
                WalletClosePos < Pos("database.Close")

(***************************************************************************)
(* C2: on shutdown of a fully started daemon the order is: RPC server      *)
(* closed, host stopped, root context cancelled, database closed, Monero   *)
(* wallet closed (backend.Close); none of these happens before one that    *)
(* precedes it in this list.  stop() closes the database first.            *)
(***************************************************************************)
ClaimedShutdownOrder == <<"rpcServer.Stop", "host.Stop", "cancel",
                          "database.Close", "backend.Close">>

C2_ShutdownOrder ==
    ShutdownOfStarted =>
        \A i, j \in DOMAIN ClaimedShutdownOrder :
            (i < j /\ Has(ClaimedShutdownOrder[j])) =>
                /\ Has(ClaimedShutdownOrder[i])
                /\ Pos(ClaimedShutdownOrder[i]) < Pos(ClaimedShutdownOrder[j])

(***************************************************************************)
(* C3: the order in which make initialises the components.                 *)
(* As claimed (database first, wallet client before the contract, swap     *)
(* manager after both) it does not hold: C3_ClaimedStartupOrder.           *)
(* As amended (C3_StartupOrder): Ethereum client, chain id, network host   *)
(* created, database opened, swap manager, contract deployed or validated, *)
(* Monero wallet client, backend, XMRTaker, XMRMaker, handler registered,  *)
(* host started, RPC server created and started; each call is made only    *)
(* after every earlier one has returned without error.                     *)
(***************************************************************************)
MakeOrder == <<"ethclient.Dial", "ec.ChainID", "net.NewHost", "db.NewDatabase",
               "swap.NewManager", "getOrDeploySwapFactory",
               "monero.NewWalletClient", "backend.NewBackend",
               "xmrtaker.NewInstance", "xmrmaker.NewInstance",
               "host.SetHandler", "host.Start", "rpc.NewServer",
               "rpcServer.Start">>

InMakeOrder(ev) == ev \in Range(MakeOrder)

C3_StartupOrder ==
    /\ IsPrefix(SelectSeq(calls, InMakeOrder), MakeOrder)
    /\ \A i \in DOMAIN calls : calls[i] = "error" => i = Len(calls)

C3_Witness == SucceededIn(calls, "rpcServer.Start") /\ comp.rpcServer = "serving"

\* the step of the claim's list a call belongs to, 0 for a call it does not list
ClaimedStage(ev) ==
    CASE ev = "db.NewDatabase" -> 1
      [] ev \in {"ethclient.Dial", "ec.ChainID"} -> 2
      [] ev = "monero.NewWalletClient" -> 3
      [] ev = "getOrDeploySwapFactory" -> 4
      [] ev = "swap.NewManager" -> 5
      [] ev = "backend.NewBackend" -> 6
      [] ev \in {"xmrtaker.NewInstance", "xmrmaker.NewInstance"} -> 7
      [] ev \in {"host.SetHandler", "host.Start"} -> 8
      [] ev \in {"rpc.NewServer", "rpcServer.Start"} -> 9
      [] OTHER -> 0

C3_ClaimedStartupOrder ==
    \A i, j \in DOMAIN calls :
        (i < j /\ ClaimedStage(calls[i]) > 0 /\ ClaimedStage(calls[j]) > 0)
            => ClaimedStage(calls[i]) <= ClaimedStage(calls[j])

(***************************************************************************)
(* C4: when a fully started daemon has shut down and runDaemon returns,    *)
(* the root context is cancelled and the RPC server, the host, the         *)
(* database and the Monero wallet client have all been stopped or closed,  *)
(* also when one of the closes returned an error.  stop() returns at the   *)
(* first error, and backend.Close() is left to the make goroutine.         *)
(***************************************************************************)
C4_ShutdownClosesAll ==
    (dpc = "exited" /\ ShutdownOfStarted) =>
        /\ ctxDone
        /\ comp.rpcServer \in {"stopped", "stopFailed"}
        /\ comp.host \in {"stopped", "stopFailed"}
        /\ comp.database \in {"closed", "closeFailed"}
        /\ comp.wallet = "closed"

(***************************************************************************)
(* C5: host.Start is called only with the XMRMaker instance registered as  *)
(* the host's handler, and s.Start only after host.Start returned without  *)
(* error.                                                                  *)
(***************************************************************************)
C5_HandlerThenHostThenRPC ==
    /\ Called("host.Start") =>
          /\ handler = "xmrmaker"
          /\ Called("host.SetHandler")
          /\ CalledAt("host.SetHandler") < CalledAt("host.Start")
    /\ Called("rpcServer.Start") =>
          /\ SucceededIn(calls, "host.Start")
          /\ CalledAt("host.Start") < CalledAt("rpcServer.Start")

C5_Witness == SucceededIn(calls, "rpcServer.Start") /\ comp.host = "started"

(***************************************************************************)
(* C6: a chain id that does not match the configured environment makes     *)
(* make fail with no host, database, backend or RPC server created.        *)
(* make forwards the chain id to net.NewHost and compares it with nothing. *)
(***************************************************************************)
C6_ChainIDValidated ==
    chainID = "mismatch" =>
        /\ \A c \in {"host", "database", "backend", "rpcServer"} :
               comp[c] = "none"
        /\ mpc = "done" => makeErr

(***************************************************************************)
(* C7: newBackend and the contract address.  With --deploy (and no         *)
(* --contract-address) getOrDeploySwapFactory gets the zero address        *)
(* whatever the config's default; without --deploy it never gets the zero  *)
(* address (no flag and a zero default is an error); with both flags       *)
(* newBackend fails before any contract call and before the wallet client. *)
(***************************************************************************)
C7_DeployExactlyOnFlag ==
    /\ (factoryArg # NoCall /\ flags.deploy) =>
          factoryArg = ZeroAddress /\ ~IsSet(flags.contractAddress)
    /\ (factoryArg # NoCall /\ ~flags.deploy) => factoryArg # ZeroAddress
    /\ (Called("contractFlags") /\ ~flags.deploy
          /\ String(flags.contractAddress) = ""
          /\ flags.cfgContractAddress = ZeroAddress) =>
          makeErr /\ factoryArg = NoCall
    /\ (Called("contractFlags") /\ flags.deploy /\ IsSet(flags.contractAddress)) =>
          /\ makeErr
          /\ factoryArg = NoCall
          /\ ~Called("getOrDeploySwapFactory")
          /\ ~Called("monero.NewWalletClient")
          /\ comp.wallet = "none"

C7_Witness ==
    /\ flags.deploy
    /\ flags.cfgContractAddress # ZeroAddress
    /\ factoryArg = ZeroAddress
    /\ comp.contract = "bound"

(***************************************************************************)
(* C8: with --dev-xmrmaker and --dev-xmrtaker both given make returns an   *)
(* error and nothing has been initialised: no Ethereum client dialled, no  *)
(* host, database, swap manager or backend, and the daemon's host,         *)
(* database and rpcServer fields are unset.                                *)
(***************************************************************************)
C8_DevFlagsExclusive ==
    (flags.devXMRMaker /\ flags.devXMRTaker) =>
        /\ \A c \in Components : comp[c] = "none"
        /\ d = [host |-> "nil", database |-> "nil", rpcServer |-> "nil"]
        /\ ~Called("ethclient.Dial")
        /\ Called("devFlags") => makeErr

C8_Witness ==
    /\ flags.devXMRMaker /\ flags.devXMRTaker
    /\ Called("devFlags")
    /\ mpc = "done"

C10_ClaimXorRefund ==
    /\ ~(claimedAt # Never /\ refundedAt # Never)
    /\ refundedAt # Never =>
          /\ refundedAt < T1 \/ refundedAt >= T2
          /\ refundedAt < T1 => readyAt = Never
          /\ cstate = "refunded"
    /\ claimedAt # Never =>
          /\ readyAt # Never /\ readyAt <= claimedAt
          /\ T1 <= claimedAt /\ claimedAt < T2
          /\ cstate = "claimed"
    /\ (ts = "Refunded" \/ ms = "Refunded") => refundedAt # Never
    /\ (ts = "Claimed" \/ ms = "Claimed") => claimedAt # Never
    /\ (eth = "maker") = (claimedAt # Never)
    /\ \A r \in reverted :
          /\ (r.tx = "claim" /\ r.was = "ready") => (r.at < T1 \/ r.at >= T2)
          /\ (r.tx = "refund" /\ r.was = "pending") => (T1 <= r.at /\ r.at < T2)

\* a claim was accepted and after it, in the same block, a refund was reverted
C10_Witness ==
    /\ claimedAt # Never
    /\ Reverted("refund", claimedAt, "claimed") \in reverted

(***************************************************************************)
(* C11: a swap is never in two terminal states: once a party's record is   *)
(* Claimed, Refunded or Aborted no step changes it, and once the           *)
(* contract's swap is claimed or refunded no transaction changes it.       *)
(***************************************************************************)
C11_TerminalIsFinal ==
    [][/\ ts \in Terminal => ts' = ts
       /\ ms \in Terminal => ms' = ms
       /\ cstate \in {"claimed", "refunded"} => cstate' = cstate]_vars

\* both ended in Refunded and a claim that entered a block afterwards was
\* reverted
C11_Witness ==
    /\ ts = "Refunded" /\ ms = "Refunded" /\ cstate = "refunded"
    /\ \E r \in reverted : r.tx = "claim" /\ r.was = "refunded"

SetReadyCalledAsDescribed == T1 <= readySentAt /\ readySentAt < T2

ClaimInWindowAccepted ==
    \A r \in reverted :
        (r.tx = "claim" /\ r.was = "ready") => ~(T1 <= r.at /\ r.at < T2)

BothClaimed ==
    /\ ts = "Claimed" /\ ms = "Claimed"
    /\ xmr = "taker" /\ eth = "maker"

C13_TakerRefundsWithoutXMR ==
    (ts = "ETHLocked") ~>
        \/ ts = "Refunded" /\ eth = "taker" /\ refundedAt # Never
        \/ "xmr_transfer" \in sent

\* the maker saw the lock and never locked its XMR; the taker refunded
C13_Witness ==
    /\ ms = "ETHLocked" /\ "xmr_transfer" \notin sent
    /\ ts = "Refunded" /\ eth = "taker" /\ "refund" \in sent

(***************************************************************************)
(* C14: at most one non-terminal swap per peer, and in single-swap mode    *)
(* at most one in all; a new_swap request that meets one is answered       *)
(* AlreadyActive and changes neither the registry nor the instance's       *)
(* slot, and only such a request is; the slot holds a non-terminal swap    *)
(* and is freed only when that swap has reached a terminal state.          *)
(***************************************************************************)
C14_OneSwapPerPeer ==
    /\ [](\A p \in Peers : Cardinality({r \in registry : r.peer = p}) <= 1)
    /\ [](singleSwap => Cardinality(registry) <= 1)
    /\ [](swapState # NoSwap =>
             /\ \E r \in registry : r.id = swapState
             /\ swapState \notin finished)
    /\ [][requests' # requests =>
             LET met == \/ \E r \in registry : r.peer = lastStart'.peer
                        \/ singleSwap /\ registry # {}
             IN  /\ met = (lastStart'.result = "AlreadyActive")
                 /\ met => UNCHANGED <<registry, swapState, finished>>]_vars
    /\ [][(swapState # NoSwap /\ swapState' # swapState) =>
             swapState' = NoSwap /\ swapState \in finished']_vars

\* two peers have a swap each and a further request was refused
C14_Witness ==
    /\ lastStart.result = "AlreadyActive"
    /\ Cardinality(registry) = 2
    /\ swapState # NoSwap

C17_TransferBackCarried ==
    inst # <<>> =>
        /\ inst[1].transferBack = cfg.TransferBack
        /\ inst[1].walletAddress =
              IF ~cfg.TransferBack THEN ""
              ELSE IF cfg.MoneroWalletFile # ""
                   THEN AddressOf(cfg.MoneroWalletFile)
                   ELSE AddressOf(swapDepositWallet)

(***************************************************************************)
(* C18: getAddress opens or creates a wallet only while none is open, and  *)
(* when it has returned, with the address or with an error, no wallet is   *)
(* open.  It returns without CloseWallet when GetAddress fails.            *)
(***************************************************************************)
C18_NoWalletLeftOpen ==
    /\ ipc = "getAddress" => wallet = ""
    /\ ipc \in {"return", "done", "failed"} => wallet = ""

(***************************************************************************)
(* C19: Instance.Refund.  With no ongoing swap it returns errNoOngoingSwap *)
(* and the zero hash, does not go on to doRefund and changes nothing of    *)
(* the instance; doRefund runs only in the caller that holds swapMu, so    *)
(* never in two callers at once.                                           *)
(***************************************************************************)
C19_RefundUnderLock ==
    /\ [](Cardinality({c \in Callers : rpc[c] = "doRefund"}) <= 1)
    /\ [](\A c \in Callers :
             rpc[c] \in {"locked", "doRefund", "unlock"} => swapMu = c)
    /\ [][\A c \in Callers :
             (rpc[c] = "locked" /\ swapState = NoSwap /\ rpc'[c] # "locked") =>
                 /\ rpc'[c] = "unlock"
                 /\ ret'[c] = [hash |-> ZeroHash, err |-> "errNoOngoingSwap"]
                 /\ UNCHANGED <<swapState, submitted, inst, registry>>]_vars

\* one caller is in doRefund; the other was told earlier that no swap is
\* ongoing
C19_Witness ==
    \E c1, c2 \in Callers :
        /\ c1 # c2
        /\ rpc[c1] = "doRefund" /\ swapMu = c1
        /\ ret[c2].err = "errNoOngoingSwap" /\ ret[c2].hash = ZeroHash

(***************************************************************************)
(* C20: stop calls Close or Stop only on a component that has been set:    *)
(* whenever stop is at one of its three calls, in any interleaving with    *)
(* the make goroutine, the field it is about to use is set, and so no call *)
(* of stop panics on a nil field.  stop tests none of the fields, and      *)
(* wait returns as soon as make has failed or a signal has arrived.        *)
(***************************************************************************)
C20_StopUsesSetComponents ==
    /\ dpc = "stop.database" => d.database = "set"
    /\ dpc = "stop.host" => d.host = "set"
    /\ dpc = "stop.rpcServer" => d.rpcServer = "set"
    /\ dpc # "panicked"

(***************************************************************************)
(* C21: every read and every write of Instance.swapState is made by a      *)
(* party that holds swapMu: a caller of Refund tests swapState only while  *)
(* it holds the mutex, nothing sets or clears swapState while a caller     *)
(* holds the mutex, and whenever GetOngoingSwapState reads swapState its   *)
(* caller holds the mutex, so that the read is never made while another    *)
(* party is inside its critical section or with the mutex free for the     *)
(* party that sets or clears the swap.                                     *)
(***************************************************************************)
C21_SwapStateUnderLock ==
    /\ \A c \in Callers : rpc[c] \in {"locked", "doRefund"} => swapMu = c
    /\ observed # NoRead => observed.holder = observed.by

====
